---- MODULE Spec2Model ----
(***************************************************************************)
(* Model of translate_names.py: the dictionary matcher, the fallback       *)
(* translation of the remaining runs, the name clean-up, and the walk and  *)
(* rename loop of translate_directory.                                     *)
(*                                                                         *)
(* A string is a sequence of characters, a character is a one-entry        *)
(* TLA+ string.  The CJK characters of the modelled names are written in   *)
(* pinyin: "mei" U+7164, "kuang" U+77FF, "tie" U+94C1, "xin" U+65B0,       *)
(* "lan" U+84DD, "tu" U+56FE, "bao" U+5305, "cang" U+4ED3, "ku" U+5E93.    *)
(* Offsets are Python offsets: 0-based, ranges half-open.                  *)
(***************************************************************************)
EXTENDS Integers, Sequences, FiniteSets, TLC

\* ------------------------------------------------------------------------
\* Bounds of the model
\* ------------------------------------------------------------------------
\* longest input string of the string-level specification
MaxLen == 4
\* largest number of entries below the root in an initial tree
MaxEntries == 3

\* ------------------------------------------------------------------------
\* Characters
\* ------------------------------------------------------------------------
\* the characters of the range [U+4E00-U+9FFF] that the model uses
Chinese == {"mei", "kuang", "tie", "xin", "lan", "tu", "bao", "cang", "ku"}
\* characters matched by \s
Whitespace == {" "}
\* characters matched by \w (Python 3 str patterns: Unicode word characters)
WordChars == Chinese \cup {"a", "t", "x", "T", "W", "C", "o", "l", "I", "r", "n",
                           "O", "e", "B", "u", "p", "i", "k", "N", "w",
                           "_", "1", "2", "3", "4", "5"}

\* text[a:b] of Python for 0 <= a, b
Slice(s, a, b) == SubSeq(s, a + 1, IF b > Len(s) THEN Len(s) ELSE b)

RECURSIVE Flatten(_)
\* ''.join(parts)
Flatten(parts) == IF parts = <<>> THEN <<>> ELSE Head(parts) \o Flatten(Tail(parts))

\* reversed(seq)
Reversed(s) == [i \in 1..Len(s) |-> s[Len(s) + 1 - i]]

\* ------------------------------------------------------------------------
\* DSP_DICTIONARY: the entries whose keys are written with the modelled
\* characters only, in insertion order.  No other key of the dictionary can
\* occur in a string over the modelled characters.
\* ------------------------------------------------------------------------
DSP_DICTIONARY ==
  << [term |-> <<"tie", "kuang">>,  target |-> <<"I","r","o","n","-","O","r","e">>],
     [term |-> <<"mei", "kuang">>,  target |-> <<"C","o","a","l">>],
     [term |-> <<"mei">>,           target |-> <<"C","o","a","l">>],
     [term |-> <<"lan", "tu">>,     target |-> <<"B","l","u","e","p","r","i","n","t">>],
     [term |-> <<"lan", "tu", "bao">>,
                                    target |-> <<"B","l","u","e","p","r","i","n","t","-","B","o","o","k">>],
     [term |-> <<"xin", "lan", "tu">>,
                                    target |-> <<"N","e","w","-","B","l","u","e","p","r","i","n","t">>] >>

\* DSP_DICTIONARY[term]
DictTarget(term) ==
  (CHOOSE e \in {DSP_DICTIONARY[i] : i \in DOMAIN DSP_DICTIONARY} : e.term = term).target

\* length of the longest key
MaxTermLen ==
  CHOOSE l \in 0..Len(DSP_DICTIONARY) + 8 :
    /\ \E i \in DOMAIN DSP_DICTIONARY : Len(DSP_DICTIONARY[i].term) = l
    /\ \A i \in DOMAIN DSP_DICTIONARY : Len(DSP_DICTIONARY[i].term) <= l

RECURSIVE SortByLenAsc(_, _)
\* the keys sorted without reverse=True: shortest first
SortByLenAsc(entries, l) ==
  IF l = 0 THEN <<>>
  ELSE SortByLenAsc(entries, l - 1) \o SelectSeq(entries, LAMBDA e : Len(e.term) = l)

RECURSIVE SortByLenDesc(_, _)
\* sorted(keys, key=len, reverse=True): a stable sort, keys of equal length
\* keep their insertion order
SortByLenDesc(entries, l) ==
  IF l = 0 THEN <<>>
  ELSE SelectSeq(entries, LAMBDA e : Len(e.term) = l) \o SortByLenDesc(entries, l - 1)

sorted_terms ==
  LET s == SortByLenDesc(DSP_DICTIONARY, MaxTermLen)
  IN  [i \in DOMAIN s |-> s[i].term]

\* ------------------------------------------------------------------------
\* contains_chinese, extract_chinese_segments
\* ------------------------------------------------------------------------
contains_chinese(text) == \E i \in DOMAIN text : text[i] \in Chinese

\* end offset of the run of Chinese characters that starts at offset a
RECURSIVE RunEnd(_, _)
RunEnd(text, a) ==
  IF a < Len(text) /\ text[a + 1] \in Chinese THEN RunEnd(text, a + 1) ELSE a

RECURSIVE SegmentsFrom(_, _)
\* re.finditer(r'[U+4E00-U+9FFF]+', text) from offset a on: (group, start, end)
SegmentsFrom(text, a) ==
  IF a >= Len(text) THEN <<>>
  ELSE IF text[a + 1] \in Chinese
       THEN LET e == RunEnd(text, a)
            IN  <<[chinese |-> Slice(text, a, e), start |-> a, end |-> e]>>
                \o SegmentsFrom(text, e)
       ELSE SegmentsFrom(text, a + 1)

extract_chinese_segments(text) == SegmentsFrom(text, 0)

\* ------------------------------------------------------------------------
\* translate_with_dictionary, first pass: the matched ranges
\* ------------------------------------------------------------------------
\* term occurs in s at offset i
OccursAt(s, term, i) ==
  /\ i >= 0
  /\ i + Len(term) <= Len(s)
  /\ Slice(s, i, i + Len(term)) = term

\* s.find(term, start)
Find(s, term, start) ==
  IF \E i \in start..Len(s) : OccursAt(s, term, i)
  THEN CHOOSE i \in start..Len(s) :
         /\ OccursAt(s, term, i)
         /\ \A j \in start..(i - 1) : ~OccursAt(s, term, j)
  ELSE -1

\* the overlap test of the first pass
Overlaps(idx, end, matched) ==
  \E k \in DOMAIN matched : ~(end <= matched[k].start \/ idx >= matched[k].end)

\* the loop left after the first occurrence of the term
ScanTermOnce(s, term, start, matched) ==
  LET idx == Find(s, term, start)
      end == idx + Len(term)
  IN  IF idx = -1 \/ Overlaps(idx, end, matched) THEN matched
      ELSE Append(matched, [start |-> idx, end |-> end, term |-> term,
                            replacement |-> DictTarget(term)])

RECURSIVE ScanTerm(_, _, _, _)
\* the while loop over the occurrences of one term
ScanTerm(s, term, start, matched) ==
  LET idx == Find(s, term, start)
      end == idx + Len(term)
  IN  IF idx = -1 THEN matched
      ELSE ScanTerm(s, term, idx + 1,
                    IF ~Overlaps(idx, end, matched)
                    THEN Append(matched, [start |-> idx, end |-> end,
                                          term |-> term,
                                          replacement |-> DictTarget(term)])
                    ELSE matched)

RECURSIVE ScanTerms(_, _, _)
\* the for loop over sorted_terms
ScanTerms(s, terms, matched) ==
  IF terms = <<>> THEN matched
  ELSE ScanTerms(s, Tail(terms), ScanTerm(s, Head(terms), 0, matched))

RECURSIVE InsertByStart(_, _)
InsertByStart(sorted, m) ==
  IF sorted = <<>> THEN <<m>>
  ELSE IF m.start < Head(sorted).start
       THEN <<m>> \o sorted
       ELSE <<Head(sorted)>> \o InsertByStart(Tail(sorted), m)

\* the matched ranges left in the order of their discovery
Unsorted(matched) == matched

RECURSIVE SortByStart(_)
\* matched_ranges.sort(key=lambda x: x[0]), a stable sort
SortByStart(matched) ==
  IF matched = <<>> THEN <<>>
  ELSE InsertByStart(SortByStart(SubSeq(matched, 1, Len(matched) - 1)),
                     matched[Len(matched)])

\* matched_ranges after the sort
matched_ranges(s) == SortByStart(ScanTerms(s, sorted_terms, <<>>))

\* ------------------------------------------------------------------------
\* The external translator (translator.translate): deterministic stubs
\* ------------------------------------------------------------------------
Translators == {"word", "blank", "echo"}

\* translator.translate(chinese)
Translate(tr, chinese) ==
  CASE tr = "word"  -> <<" ", "T", " ", " ", "W", "!", " ">>
    [] tr = "blank" -> <<"!">>
    [] tr = "echo"  -> chinese

RECURSIVE LStrip(_)
LStrip(s) == IF s # <<>> /\ Head(s) \in Whitespace THEN LStrip(Tail(s)) ELSE s

\* str.strip()
Strip(s) == Reversed(LStrip(Reversed(LStrip(s))))

RECURSIVE CollapseRuns(_, _, _)
\* re.sub(cls+, rep, s): every maximal run of characters of cls becomes rep
CollapseRuns(s, cls, rep) ==
  IF s = <<>> THEN <<>>
  ELSE IF Head(s) \in cls
       THEN IF Len(s) > 1 /\ s[2] \in cls
            THEN CollapseRuns(Tail(s), cls, rep)
            ELSE rep \o CollapseRuns(Tail(s), cls, rep)
       ELSE <<Head(s)>> \o CollapseRuns(Tail(s), cls, rep)

\* the three clean-up steps applied to a translation
Sanitize(translated) ==
  LET stripped == Strip(translated)
      dashed   == CollapseRuns(stripped, Whitespace, <<"-">>)
  IN  SelectSeq(dashed, LAMBDA c : c \in WordChars \cup {"-", "."})

RECURSIVE ReplaceSegmentsForward(_, _, _)
\* the segments replaced first to last at the offsets they had in the text
ReplaceSegmentsForward(tr, result, segs) ==
  IF segs = <<>> THEN result
  ELSE LET g == Head(segs)
           translated == Sanitize(Translate(tr, g.chinese))
       IN  ReplaceSegmentsForward(tr,
                                  Slice(result, 0, g.start) \o translated
                                    \o Slice(result, g.end, Len(result)),
                                  Tail(segs))

RECURSIVE ReplaceSegments(_, _, _)
\* the loop of translate_remaining_chinese over reversed(segments);
\* segs is the list still to be processed, last element first
ReplaceSegments(tr, result, segs) ==
  IF segs = <<>> THEN result
  ELSE LET g == segs[Len(segs)]
           translated == Sanitize(Translate(tr, g.chinese))
       IN  ReplaceSegments(tr,
                           Slice(result, 0, g.start) \o translated
                             \o Slice(result, g.end, Len(result)),
                           SubSeq(segs, 1, Len(segs) - 1))

\* translate_remaining_chinese: the text returned and the translator calls
\* made, in call order
translate_remaining_chinese(text, tr) ==
  LET segments == extract_chinese_segments(text)
  IN  [out   |-> ReplaceSegments(tr, text, segments),
       calls |-> [i \in DOMAIN segments |-> Reversed(segments)[i].chinese]]

RECURSIVE BuildParts(_, _, _, _)
\* the second pass of translate_with_dictionary over matched_ranges:
\* the parts appended for the matches from index k on, and the calls made
BuildParts(result, tr, matched, last_end) ==
  IF matched = <<>>
  THEN LET after == Slice(result, last_end, Len(result))
           t == IF contains_chinese(after)
                THEN translate_remaining_chinese(after, tr)
                ELSE [out |-> after, calls |-> <<>>]
       IN  IF after # <<>> THEN [parts |-> <<t.out>>, calls |-> t.calls]
           ELSE [parts |-> <<>>, calls |-> <<>>]
  ELSE LET m == Head(matched)
           before == Slice(result, last_end, m.start)
           t == IF contains_chinese(before)
                THEN translate_remaining_chinese(before, tr)
                ELSE [out |-> before, calls |-> <<>>]
           rest == BuildParts(result, tr, Tail(matched), m.end)
       IN  [parts |-> (IF before # <<>> THEN <<t.out>> ELSE <<>>)
                      \o <<m.replacement>> \o rest.parts,
            calls |-> (IF before # <<>> THEN t.calls ELSE <<>>) \o rest.calls]

\* translate_with_dictionary: the text returned and the translator calls made
translate_with_dictionary(chinese_text, tr) ==
  LET matched == matched_ranges(chinese_text)
  IN  IF matched # <<>>
      THEN LET b == BuildParts(chinese_text, tr, matched, 0)
           IN  [out |-> Flatten(b.parts), calls |-> b.calls]
      ELSE translate_remaining_chinese(chinese_text, tr)

\* ------------------------------------------------------------------------
\* translate_name
\* ------------------------------------------------------------------------
\* offset of the last "." of name, -1 if there is none (str.rfind)
RFindDot(name) ==
  IF \E i \in DOMAIN name : name[i] = "."
  THEN (CHOOSE i \in DOMAIN name :
          name[i] = "." /\ \A j \in (i + 1)..Len(name) : name[j] # ".") - 1
  ELSE -1

\* PurePath(name).suffix for a single path component
PathSuffix(name) ==
  LET i == RFindDot(name)
  IN  IF 0 < i /\ i < Len(name) - 1 THEN Slice(name, i, Len(name)) ELSE <<>>

\* PurePath(name).stem for a single path component
PathStem(name) ==
  LET i == RFindDot(name)
  IN  IF 0 < i /\ i < Len(name) - 1 THEN Slice(name, 0, i) ELSE name

RECURSIVE LStripChar(_, _)
LStripChar(s, c) == IF s # <<>> /\ Head(s) = c THEN LStripChar(Tail(s), c) ELSE s

\* str.strip('-')
StripDashes(s) == Reversed(LStripChar(Reversed(LStripChar(s, "-")), "-"))

\* the two clean-up lines of translate_name
CleanStem(translated_stem) ==
  StripDashes(CollapseRuns(translated_stem, {"-"}, <<"-">>))

\* the stem and the suffix translate_name splits name into
SplitStem(name)   == IF PathSuffix(name) # <<>> THEN PathStem(name) ELSE name
SplitSuffix(name) == IF PathSuffix(name) # <<>> THEN PathSuffix(name) ELSE <<>>

\* translate_name: the name returned and the translator calls made
translate_name(name, tr) ==
  IF ~contains_chinese(name) THEN [out |-> name, calls |-> <<>>]
  ELSE LET t == translate_with_dictionary(SplitStem(name), tr)
       IN  [out |-> CleanStem(t.out) \o SplitSuffix(name), calls |-> t.calls]

\* the split, the two clean-up lines and the re-attached suffix of
\* translate_name, for a stem the translation leaves as it is
normalize(name) == CleanStem(SplitStem(name)) \o SplitSuffix(name)

\* ------------------------------------------------------------------------
\* The filesystem below root_dir.  An entry has an identity (1..MaxEntries),
\* the identity of its parent directory (0 is root_dir), a base name and a
\* kind; "link" is a symbolic link whose target does not exist.  A path is
\* the sequence of base names from root_dir down, <<>> is root_dir.
\* ------------------------------------------------------------------------
Kinds == {"file", "dir", "link"}

\* base name of root_dir itself, the last component of its resolved path
RootName == <<"r">>

\* the entry of directory d with base name n, -1 if there is none
Child(f, d, n) ==
  IF \E i \in DOMAIN f : f[i].parent = d /\ f[i].name = n
  THEN CHOOSE i \in DOMAIN f : f[i].parent = d /\ f[i].name = n
  ELSE -1

RECURSIVE Lookup(_, _, _)
\* the entry a path names, resolved component by component from directory d;
\* 0 for root_dir, -1 if nothing is there
Lookup(f, d, path) ==
  IF path = <<>> THEN d
  ELSE LET c == Child(f, d, Head(path))
       IN  IF c = -1 THEN -1
           ELSE IF Tail(path) = <<>> THEN c
           ELSE IF f[c].kind = "dir" THEN Lookup(f, c, Tail(path))
           ELSE -1

\* Path.exists(): follows symbolic links, so a dangling link does not exist
Exists(f, path) ==
  LET e == Lookup(f, 0, path)
  IN  e # -1 /\ (e = 0 \/ f[e].kind # "link")

\* Path.parent, Path.name
Parent(path) == SubSeq(path, 1, Len(path) - 1)
BaseName(path) == IF path = <<>> THEN RootName ELSE path[Len(path)]

\* parent / new_name: pathlib drops an empty component
JoinPath(parent, new_name) ==
  IF new_name = <<>> \/ new_name = <<".">> THEN parent ELSE Append(parent, new_name)

\* os.scandir(d): the entries of a directory in directory order, which is
\* the order of the entry identities (Init enumerates every assignment of
\* identities, so every directory order occurs)
RECURSIVE ScanFrom(_, _, _)
ScanFrom(f, d, i) ==
  IF \A j \in DOMAIN f : j < i THEN <<>>
  ELSE (IF i \in DOMAIN f /\ f[i].parent = d THEN <<i>> ELSE <<>>)
       \o ScanFrom(f, d, i + 1)

Scandir(f, d) == ScanFrom(f, d, 1)

\* names of version-control and environment directories that are skipped
SkippedDirs == {<<".", "g", "i", "t">>, <<".", "v", "e", "n", "v">>}

RECURSIVE WalkTopDown(_, _, _, _)
RECURSIVE WalkAllTopDown(_, _, _, _)
WalkAllTopDown(root, f, ds, dirpath) ==
  IF ds = <<>> THEN <<>>
  ELSE WalkTopDown(root, f, Head(ds), Append(dirpath, f[Head(ds)].name))
       \o WalkAllTopDown(root, f, Tail(ds), dirpath)

\* the walk with topdown=True: a directory yields before its subdirectories
WalkTopDown(root, f, d, dirpath) ==
  LET entries   == Scandir(f, d)
      dirnames  == SelectSeq(entries, LAMBDA e : f[e].kind = "dir")
      filenames == SelectSeq(entries, LAMBDA e : f[e].kind # "dir")
      files     == SelectSeq(filenames, LAMBDA e : contains_chinese(f[e].name))
      dirs      == SelectSeq(dirnames, LAMBDA e : contains_chinese(f[e].name))
  IN  [i \in DOMAIN files |->
         [type |-> "file", path |-> Append(dirpath, f[files[i]].name)]]
      \o [i \in DOMAIN dirs |->
         [type |-> "dir", path |-> Append(dirpath, f[dirs[i]].name)]]
      \o WalkAllTopDown(root, f, dirnames, dirpath)

RECURSIVE Walk(_, _, _, _)
RECURSIVE WalkAll(_, _, _, _)
\* the body of the os.walk loop for the triples of subtrees ds (a list of
\* directory entries), in order
WalkAll(root, f, ds, dirpath) ==
  IF ds = <<>> THEN <<>>
  ELSE Walk(root, f, Head(ds), Append(dirpath, f[Head(ds)].name))
       \o WalkAll(root, f, Tail(ds), dirpath)

\* os.walk(topdown=False) from directory d with the loop body applied to
\* every triple: the subdirectories are walked first, then d itself yields
\* its files, then its directories
Walk(root, f, d, dirpath) ==
  LET entries   == Scandir(f, d)
      dirnames  == SelectSeq(entries, LAMBDA e : f[e].kind = "dir")
      filenames == SelectSeq(entries, LAMBDA e : f[e].kind # "dir")
      parts     == root \o dirpath
      skip      == \E k \in DOMAIN parts : parts[k] \in SkippedDirs
      files     == SelectSeq(filenames, LAMBDA e : contains_chinese(f[e].name))
      dirs      == SelectSeq(dirnames, LAMBDA e :
                               /\ f[e].name \notin SkippedDirs
                               /\ contains_chinese(f[e].name))
  IN  WalkAll(root, f, dirnames, dirpath)
      \o (IF skip THEN <<>>
          ELSE [i \in DOMAIN files |->
                  [type |-> "file", path |-> Append(dirpath, f[files[i]].name)]]
               \o [i \in DOMAIN dirs |->
                  [type |-> "dir", path |-> Append(dirpath, f[dirs[i]].name)]])

\* ------------------------------------------------------------------------
\* rename_item
\* ------------------------------------------------------------------------
\* str(n) for a decimal digit
DigitChar(d) == <<"0", "1", "2", "3", "4", "5", "6", "7", "8", "9">>[d + 1]

RECURSIVE IntStr(_)
\* str(counter)
IntStr(n) == IF n < 10 THEN <<DigitChar(n)>>
             ELSE IntStr(n \div 10) \o <<DigitChar(n % 10)>>

\* f"{stem}_{counter}{suffix}"
SuffixedName(stem, counter, suffix) == stem \o <<"_">> \o IntStr(counter) \o suffix

RECURSIVE FreeCounter(_, _, _, _, _)
\* the while loop of rename_item: the first counter whose name does not exist
FreeCounter(f, parent, stem, suffix, counter) ==
  IF Exists(f, JoinPath(parent, SuffixedName(stem, counter, suffix)))
  THEN FreeCounter(f, parent, stem, suffix, counter + 1)
  ELSE counter

\* first value of counter
FirstCounter == 1

\* the name conflict handling of rename_item: the final new_name
ResolveConflict(f, old_path, new_name) ==
  LET new_path == JoinPath(Parent(old_path), new_name)
      suffix   == PathSuffix(BaseName(new_path))
      stem     == IF suffix # <<>> THEN PathStem(BaseName(new_path)) ELSE new_name
  IN  IF Exists(f, new_path)
      THEN SuffixedName(stem,
                        FreeCounter(f, Parent(old_path), stem, suffix, FirstCounter),
                        suffix)
      ELSE new_name

\* the new_path rename_item renames to (or would, in a dry run)
TargetPath(f, old_path, new_name) ==
  JoinPath(Parent(old_path), ResolveConflict(f, old_path, new_name))

\* os.rename(old_path, new_path) fails with an OSError of the filesystem's
\* own: a directory cannot replace a non-directory, a non-directory cannot
\* replace a directory, a directory replaces only an empty directory
RenameRefused(f, old_path, new_path) ==
  LET src == Lookup(f, 0, old_path)
      dst == Lookup(f, 0, new_path)
  IN  \/ Lookup(f, 0, Parent(new_path)) = -1
      \/ dst = 0
      \/ /\ dst > 0
         /\ dst # src
         /\ \/ (f[src].kind = "dir") # (f[dst].kind = "dir")
            \/ f[dst].kind = "dir" /\ \E i \in DOMAIN f : f[i].parent = dst

\* os.rename(old_path, new_path) when it succeeds: the entry gets its new
\* parent and base name, whatever was at new_path is replaced
OsRename(f, old_path, new_path) ==
  LET src  == Lookup(f, 0, old_path)
      dst  == Lookup(f, 0, new_path)
      keep == IF dst > 0 /\ dst # src THEN DOMAIN f \ {dst} ELSE DOMAIN f
  IN  [i \in keep |->
         IF i = src
         THEN [f[i] EXCEPT !.parent = Lookup(f, 0, Parent(new_path)),
                           !.name = BaseName(new_path)]
         ELSE f[i]]

\* ------------------------------------------------------------------------
\* State
\* ------------------------------------------------------------------------
VARIABLES
  fs,                \* the filesystem below root_dir
  fs0,               \* the filesystem when translate_directory was called
  root_dir,          \* the components of the resolved path of root_dir
  dry_run,           \* the dry_run argument
  translator,        \* the translator argument
  pc,                \* position in translate_directory
  items_to_process,  \* the collected candidates
  idx,               \* index of the candidate the loop is at
  renamed_count,     \* the counter of the loop
  out,               \* the rename lines printed so far, with their paths
  summary,           \* the count of the summary line, -1 while not printed
  name,              \* translate_name: the name argument
  stage,             \* translate_name: position
  matched,           \* translate_with_dictionary: matched_ranges after the sort
  translated,        \* translate_with_dictionary: text returned, calls made
  result             \* translate_name: the name returned

treeVars == <<fs, fs0, root_dir, dry_run, pc, items_to_process, idx, renamed_count, out, summary>>
nameVars == <<name, stage, matched, translated, result>>
vars == <<treeVars, translator, nameVars>>

\* ------------------------------------------------------------------------
\* translate_directory
\* ------------------------------------------------------------------------
\* base names and kinds of the entries of the initial trees
InitShapes ==
  { [name |-> <<"mei">>, kind |-> "file"],
    [name |-> <<"mei", "kuang">>, kind |-> "file"],
    [name |-> <<"C", "o", "a", "l">>, kind |-> "file"],
    [name |-> <<"cang">>, kind |-> "file"],
    [name |-> <<"mei">>, kind |-> "dir"],
    [name |-> <<"C", "o", "a", "l">>, kind |-> "dir"],
    [name |-> <<"C", "o", "a", "l">>, kind |-> "link"],
    [name |-> <<"cang">>, kind |-> "link"] }

\* the entries that can be added to tree t as entry Len(t) + 1
NewEntries(t, shapes) ==
  { e \in [parent : 0..Len(t), name : {x.name : x \in shapes}, kind : Kinds] :
      /\ [name |-> e.name, kind |-> e.kind] \in shapes
      /\ e.parent = 0 \/ t[e.parent].kind = "dir"
      /\ \A i \in DOMAIN t : ~(t[i].parent = e.parent /\ t[i].name = e.name) }

RECURSIVE TreesOf(_, _)
\* the trees of exactly n entries
TreesOf(n, shapes) ==
  IF n = 0 THEN {<<>>}
  ELSE UNION { { Append(t, e) : e \in NewEntries(t, shapes) } : t \in TreesOf(n - 1, shapes) }

Trees(shapes) == UNION { TreesOf(n, shapes) : n \in 0..MaxEntries }

NameIdle ==
  /\ name = <<>>
  /\ stage = "off"
  /\ matched = <<>>
  /\ translated = [out |-> <<>>, calls |-> <<>>]
  /\ result = <<>>

\* root_dir has no component named .git or .venv here and in InitExt;
\* InitWalk has both kinds of root_dir
Init ==
  /\ fs \in Trees(InitShapes)
  /\ fs0 = fs
  /\ root_dir = <<RootName>>
  /\ dry_run \in BOOLEAN
  /\ translator \in Translators
  /\ pc = "walk"
  /\ items_to_process = <<>>
  /\ idx = 1
  /\ renamed_count = 0
  /\ out = <<>>
  /\ summary = -1
  /\ NameIdle

\* initial trees whose names have extensions
ExtShapes ==
  { [name |-> <<"-", ".", "mei">>, kind |-> "file"],
    [name |-> <<".", "mei">>, kind |-> "file"],
    [name |-> <<"cang", ".", "a">>, kind |-> "file"],
    [name |-> <<"C", "o", "a", "l", ".", "a">>, kind |-> "file"],
    [name |-> <<"mei", ".", "a">>, kind |-> "file"],
    [name |-> <<"mei", ".", "a">>, kind |-> "dir"],
    [name |-> <<"cang", ".", "a">>, kind |-> "link"] }

InitExt ==
  /\ fs \in Trees(ExtShapes)
  /\ fs0 = fs
  /\ root_dir = <<RootName>>
  /\ dry_run \in BOOLEAN
  /\ translator \in Translators
  /\ pc = "walk"
  /\ items_to_process = <<>>
  /\ idx = 1
  /\ renamed_count = 0
  /\ out = <<>>
  /\ summary = -1
  /\ NameIdle

\* the candidate the loop is at, and what translate_name makes of its name
item_path == items_to_process[idx].path
old_name  == BaseName(item_path)
new_name  == translate_name(old_name, translator).out
AtItem    == pc = "loop" /\ idx <= Len(items_to_process)

\* the walk found candidates
Collect ==
  /\ pc = "walk"
  /\ Walk(root_dir, fs, 0, <<>>) # <<>>
  /\ items_to_process' = Walk(root_dir, fs, 0, <<>>)
  /\ pc' = "loop"
  /\ UNCHANGED <<fs, fs0, root_dir, dry_run, idx, renamed_count, out, summary, translator, nameVars>>

\* the walk found nothing: "No files or folders ..." and return
NothingFound ==
  /\ pc = "walk"
  /\ Walk(root_dir, fs, 0, <<>>) = <<>>
  /\ pc' = "done"
  /\ UNCHANGED <<fs, fs0, root_dir, dry_run, items_to_process, idx, renamed_count, out,
                 summary, translator, nameVars>>

\* if not item_path.exists(): continue
SkipMissing ==
  /\ AtItem
  /\ ~Exists(fs, item_path)
  /\ idx' = idx + 1
  /\ UNCHANGED <<fs, fs0, root_dir, dry_run, pc, items_to_process, renamed_count, out,
                 summary, translator, nameVars>>

\* translator.translate raises inside translate_name: nothing catches it
TranslateFails ==
  /\ AtItem
  /\ Exists(fs, item_path)
  /\ translate_name(old_name, translator).calls # <<>>
  /\ pc' = "aborted"
  /\ UNCHANGED <<fs, fs0, root_dir, dry_run, items_to_process, idx, renamed_count, out,
                 summary, translator, nameVars>>

\* old_name == new_name
NoChange ==
  /\ AtItem
  /\ Exists(fs, item_path)
  /\ old_name = new_name
  /\ idx' = idx + 1
  /\ UNCHANGED <<fs, fs0, root_dir, dry_run, pc, items_to_process, renamed_count, out,
                 summary, translator, nameVars>>

\* the line rename_item prints, with the paths it is about, the name
\* translate_name proposed and the translator calls made for it
Line(mode, old_path, new_path) ==
  [mode |-> mode, old |-> old_path, new |-> new_path,
   proposed |-> new_name, calls |-> translate_name(old_name, translator).calls]

\* rename_item with dry_run: the line is printed, nothing is renamed
DryRename ==
  /\ AtItem
  /\ Exists(fs, item_path)
  /\ old_name # new_name
  /\ dry_run
  /\ LET new_path == TargetPath(fs, item_path, new_name)
     IN  out' = IF item_path = JoinPath(Parent(item_path), new_name) THEN out
                ELSE Append(out, Line("DRY RUN", item_path, new_path))
  /\ renamed_count' = renamed_count + 1
  /\ idx' = idx + 1
  /\ UNCHANGED <<fs, fs0, root_dir, dry_run, pc, items_to_process, summary, translator, nameVars>>

\* rename_item without dry_run, os.rename succeeds
LiveRename ==
  /\ AtItem
  /\ Exists(fs, item_path)
  /\ old_name # new_name
  /\ ~dry_run
  /\ LET new_path == TargetPath(fs, item_path, new_name)
     IN  IF item_path = JoinPath(Parent(item_path), new_name)
         THEN UNCHANGED <<fs, out>>
         ELSE /\ ~RenameRefused(fs, item_path, new_path)
              /\ fs' = OsRename(fs, item_path, new_path)
              /\ out' = Append(out, Line("Renamed", item_path, new_path))
  /\ renamed_count' = renamed_count + 1
  /\ idx' = idx + 1
  /\ UNCHANGED <<fs0, root_dir, dry_run, pc, items_to_process, summary, translator, nameVars>>

\* rename_item without dry_run, os.rename raises OSError (refused for the
\* kinds of the two entries, or for a reason outside the model such as
\* permissions): nothing catches it
RenameFails ==
  /\ AtItem
  /\ Exists(fs, item_path)
  /\ old_name # new_name
  /\ ~dry_run
  /\ item_path # JoinPath(Parent(item_path), new_name)
  /\ pc' = "aborted"
  /\ UNCHANGED <<fs, fs0, root_dir, dry_run, items_to_process, idx, renamed_count, out,
                 summary, translator, nameVars>>

\* the loop is over: the summary line
Summary ==
  /\ pc = "loop"
  /\ idx > Len(items_to_process)
  /\ summary' = renamed_count
  /\ pc' = "done"
  /\ UNCHANGED <<fs, fs0, root_dir, dry_run, items_to_process, idx, renamed_count, out,
                 translator, nameVars>>

Next ==
  \/ Collect
  \/ NothingFound
  \/ SkipMissing
  \/ TranslateFails
  \/ NoChange
  \/ DryRename
  \/ LiveRename
  \/ RenameFails
  \/ Summary

Spec == Init /\ [][Next]_vars

SpecExt == InitExt /\ [][Next]_vars

\* initial trees with a version-control directory
WalkShapes ==
  { [name |-> <<".", "g", "i", "t">>, kind |-> "dir"],
    [name |-> <<"mei">>, kind |-> "dir"],
    [name |-> <<"mei">>, kind |-> "file"],
    [name |-> <<"cang">>, kind |-> "file"],
    [name |-> <<"cang">>, kind |-> "link"] }

\* Path(root_dir).resolve(): a root_dir below a directory of an ordinary
\* name, and one below a directory named .venv
RootDirs ==
  { <<<<"h">>, RootName>>,
    <<<<".", "v", "e", "n", "v">>, RootName>> }

InitWalk ==
  /\ fs \in Trees(WalkShapes)
  /\ fs0 = fs
  /\ root_dir \in RootDirs
  /\ dry_run \in BOOLEAN
  /\ translator \in Translators
  /\ pc = "walk"
  /\ items_to_process = <<>>
  /\ idx = 1
  /\ renamed_count = 0
  /\ out = <<>>
  /\ summary = -1
  /\ NameIdle

SpecWalk == InitWalk /\ [][Next]_vars

\* ------------------------------------------------------------------------
\* translate_name on its own, applied to every name of a bounded set
\* ------------------------------------------------------------------------
\* the characters of the names: those of four dictionary terms, one Chinese
\* character outside the dictionary, the hyphen and the dot
NameChars == {"tie", "kuang", "xin", "lan", "tu", "bao", "cang", "-", "."}

\* the strings over chars of length n or less
StringsUpTo(chars, n) == UNION { [1..k -> chars] : k \in 0..n }

TreeIdle ==
  /\ fs = <<>>
  /\ fs0 = <<>>
  /\ root_dir = <<RootName>>
  /\ dry_run = FALSE
  /\ pc = "off"
  /\ items_to_process = <<>>
  /\ idx = 1
  /\ renamed_count = 0
  /\ out = <<>>
  /\ summary = -1

InitName ==
  /\ name \in StringsUpTo(NameChars, MaxLen)
  /\ stage = "start"
  /\ translator = "word"
  /\ matched = <<>>
  /\ translated = [out |-> <<>>, calls |-> <<>>]
  /\ result = <<>>
  /\ TreeIdle

\* if not contains_chinese(name): return name
ReturnUnchanged ==
  /\ stage = "start"
  /\ ~contains_chinese(name)
  /\ result' = name
  /\ stage' = "done"
  /\ UNCHANGED <<treeVars, translator, name, matched, translated>>

\* the split of the name and the first pass of translate_with_dictionary
\* over the stem
FirstPass ==
  /\ stage = "start"
  /\ contains_chinese(name)
  /\ matched' = matched_ranges(SplitStem(name))
  /\ stage' = "matched"
  /\ UNCHANGED <<treeVars, translator, name, translated, result>>

\* the second pass with the translator given, and the clean-up
SecondPass ==
  /\ stage = "matched"
  /\ \E tr \in Translators :
       /\ translator' = tr
       /\ translated' = translate_with_dictionary(SplitStem(name), tr)
       /\ result' = translate_name(name, tr).out
  /\ stage' = "done"
  /\ UNCHANGED <<treeVars, name, matched>>

NextName ==
  \/ ReturnUnchanged
  \/ FirstPass
  \/ SecondPass

SpecName == InitName /\ [][NextName]_vars

\* ------------------------------------------------------------------------
\* The clean-up of translate_name on its own, applied to a name and then to
\* the name it returned
\* ------------------------------------------------------------------------
\* the characters of these names
NormChars == {"-", ".", "a", "cang"}

\* translate_name reaches the clean-up for names with a Chinese character
InitNorm ==
  /\ name \in { n \in StringsUpTo(NormChars, MaxLen) : contains_chinese(n) }
  /\ stage = "start"
  /\ translator = "echo"
  /\ matched = <<>>
  /\ translated = [out |-> <<>>, calls |-> <<>>]
  /\ result = <<>>
  /\ TreeIdle

\* the clean-up applied to the name
NormalizeOnce ==
  /\ stage = "start"
  /\ result' = normalize(name)
  /\ stage' = "once"
  /\ UNCHANGED <<treeVars, translator, name, matched, translated>>

\* the clean-up applied to the name returned
NormalizeAgain ==
  /\ stage = "once"
  /\ result' = normalize(result)
  /\ stage' = "twice"
  /\ UNCHANGED <<treeVars, translator, name, matched, translated>>

NextNorm ==
  \/ NormalizeOnce
  \/ NormalizeAgain

SpecNorm == InitNorm /\ [][NextNorm]_vars

\* ------------------------------------------------------------------------
\* Properties
\* ------------------------------------------------------------------------
\* p is a proper prefix of q
ProperPrefix(p, q) == Len(p) < Len(q) /\ SubSeq(q, 1, Len(p)) = p

\* s ends with t
EndsWith(s, t) == Len(t) <= Len(s) /\ SubSeq(s, Len(s) - Len(t) + 1, Len(s)) = t

\* something is at the path, be it a file, a directory or a dangling link
Occupied(f, path) == Lookup(f, 0, path) # -1

\* the step printed a rename line
Printed == Len(out') = Len(out) + 1

\* the last line printed by the step
LastLine == out'[Len(out')]

\* C1: in a live run every os.rename goes to a path at which nothing was
\* immediately before; when the proposed sibling path is taken the name is
\* <stem>_<k><extension> of the proposed name with k the smallest integer
\* from 1 on whose path is free.
C1_RenameOntoFreePath ==
  [][ (Printed /\ ~dry_run) =>
        LET parent   == Parent(LastLine.old)
            proposed == LastLine.proposed
            aside(k) == JoinPath(parent, SuffixedName(PathStem(proposed), k,
                                                      PathSuffix(proposed)))
        IN  /\ ~Occupied(fs, LastLine.new)
            /\ IF Occupied(fs, JoinPath(parent, proposed))
               THEN \E k \in 1..(Cardinality(DOMAIN fs) + 1) :
                      /\ LastLine.new = aside(k)
                      /\ \A j \in 1..(k - 1) : Occupied(fs, aside(j))
               ELSE LastLine.new = JoinPath(parent, proposed) ]_vars

\* C2: after a live run the filesystem holds the same entries as before, each
\* with the parent and the kind it had: none created, deleted, overwritten
\* or moved to another directory.
C2_TreePreserved ==
  (pc = "done" /\ ~dry_run) =>
     /\ DOMAIN fs = DOMAIN fs0
     /\ \A e \in DOMAIN fs0 :
          e \in DOMAIN fs => fs[e].parent = fs0[e].parent /\ fs[e].kind = fs0[e].kind

\* C3: in one run, live or dry, no two rename lines give the same final path.
C3_DistinctTargets ==
  \A i, j \in DOMAIN out : i # j => out[i].new # out[j].new

\* the candidates of the initial tree that translate_name gives another name
Renamable ==
  LET c == Walk(root_dir, fs0, 0, <<>>)
  IN  { i \in DOMAIN c :
          translate_name(BaseName(c[i].path), translator).out # BaseName(c[i].path) }

\* C4: a dry run changes nothing in the filesystem, and the count of its
\* summary line is the number of collected candidates whose resolved name
\* differs from their name.
C4_DryRunCounts ==
  dry_run =>
     /\ fs = fs0
     /\ summary # -1 => summary = Cardinality(Renamable)

C6_ErrorsIsolated ==
  (pc \in {"done", "aborted"} /\ items_to_process # <<>>) =>
     /\ idx > Len(items_to_process)
     /\ summary # -1

\* C7: the matched ranges are non-empty half-open ranges, pairwise
\* non-overlapping, in strictly ascending order of their start offsets.
C7_SpansDisjointSorted ==
  stage \in {"matched", "done"} =>
     /\ \A k \in DOMAIN matched :
          0 <= matched[k].start /\ matched[k].start < matched[k].end
          /\ matched[k].end <= Len(SplitStem(name))
     /\ \A i, j \in DOMAIN matched :
          i < j => matched[i].start < matched[j].start
                   /\ matched[i].end <= matched[j].start

\* two spans that the first pass found in the other order
C7_Witness ==
  /\ stage = "matched"
  /\ Len(matched) >= 2
  /\ ScanTerms(SplitStem(name), sorted_terms, <<>>) # matched

\* the occurrences of the dictionary terms in s
Occurrences(s) ==
  { o \in [start : 0..Len(s), term : {DSP_DICTIONARY[i].term : i \in DOMAIN DSP_DICTIONARY}] :
      OccursAt(s, o.term, o.start) }

OccEnd(o) == o.start + Len(o.term)

\* two occurrences share an offset
OccOverlap(a, b) == ~(OccEnd(a) <= b.start \/ a.start >= OccEnd(b))

\* the occurrence is one of the matched ranges
Accepted(o) ==
  \E k \in DOMAIN matched :
     matched[k].start = o.start /\ matched[k].term = o.term

\* C8 as stated: of two overlapping occurrences of terms of different length,
\* the longer is among the matched ranges and the shorter is not.
C8_LongerAlwaysWins ==
  stage \in {"matched", "done"} =>
     \A a, b \in Occurrences(SplitStem(name)) :
        (OccOverlap(a, b) /\ Len(a.term) > Len(b.term)) => (Accepted(a) /\ ~Accepted(b))

\* C8 amended: of two overlapping occurrences of terms of different length,
\* the shorter is not among the matched ranges when the longer is, and the
\* longer is missing only when it overlaps a matched range of a term at least
\* as long as its own.
C8_LongerWinsUnlessDisplaced ==
  stage \in {"matched", "done"} =>
     \A a, b \in Occurrences(SplitStem(name)) :
        (OccOverlap(a, b) /\ Len(a.term) > Len(b.term)) =>
           /\ Accepted(a) => ~Accepted(b)
           /\ ~Accepted(a) =>
                \E c \in Occurrences(SplitStem(name)) :
                   /\ Accepted(c)
                   /\ OccOverlap(c, a)
                   /\ Len(c.term) >= Len(a.term)

\* an occurrence that overlaps one of a shorter term and was displaced by a
\* matched range of a term as long as its own
C8_Witness ==
  /\ stage = "matched"
  /\ \E a, b, c \in Occurrences(SplitStem(name)) :
        /\ OccOverlap(a, b)
        /\ Len(a.term) > Len(b.term)
        /\ ~Accepted(a)
        /\ Accepted(c)
        /\ OccOverlap(c, a)
        /\ Len(c.term) = Len(a.term)

RECURSIVE JoinDashed(_)
\* the pieces with one hyphen between neighbours
JoinDashed(pieces) ==
  IF Len(pieces) <= 1 THEN Flatten(pieces)
  ELSE Head(pieces) \o <<"-">> \o JoinDashed(Tail(pieces))

RECURSIVE Pieces(_, _, _, _)
\* the replacements of the matched ranges and the cleaned translations of
\* the runs between them, in text order, for a text of Chinese characters
Pieces(text, tr, ranges, last_end) ==
  IF ranges = <<>>
  THEN IF last_end < Len(text)
       THEN <<Sanitize(Translate(tr, Slice(text, last_end, Len(text))))>>
       ELSE <<>>
  ELSE (IF last_end < Head(ranges).start
        THEN <<Sanitize(Translate(tr, Slice(text, last_end, Head(ranges).start)))>>
        ELSE <<>>)
       \o <<Head(ranges).replacement>>
       \o Pieces(text, tr, Tail(ranges), Head(ranges).end)

\* C9: in the name returned, a dictionary replacement and the translated run
\* or dictionary replacement next to it are separated by exactly one hyphen;
\* "tie kuang cang ku" with "cang ku" translated to T gives "Iron-Ore-T".
C9_HyphenBetweenParts ==
  (stage = "done" /\ translator = "word" /\ matched # <<>>
     /\ \A i \in DOMAIN name : name[i] \in Chinese) =>
       result = JoinDashed(Pieces(name, translator, matched, 0))

\* C10: the name translate_name returns ends with the suffix of the name it
\* was given, the translator is called on text of the stem only, and the name
\* rename_item settles on still ends with that suffix.
C10_SuffixKept ==
  \A k \in DOMAIN out :
     LET given  == BaseName(out[k].old)
         suffix == SplitSuffix(given)
         stem   == SplitStem(given)
     IN  /\ EndsWith(out[k].proposed, suffix)
         /\ \A c \in DOMAIN out[k].calls :
               \E a \in 0..Len(stem) : OccursAt(stem, out[k].calls[c], a)
         /\ EndsWith(BaseName(out[k].new), suffix)

\* the occurrence shares an offset with one of the matched ranges
OverlapsMatched(o) ==
  \E k \in DOMAIN matched :
     ~(OccEnd(o) <= matched[k].start \/ o.start >= matched[k].end)

\* C13: the matched ranges are maximal: every occurrence of every dictionary
\* term in the stem is one of the matched ranges or overlaps one of them, so
\* no occurrence could be added without an overlap.
C13_MatchSetMaximal ==
  stage = "matched" =>
     \A o \in Occurrences(SplitStem(name)) : Accepted(o) \/ OverlapsMatched(o)

\* an occurrence that was left out because it overlaps a matched range
C13_Witness ==
  /\ stage = "matched"
  /\ \E o \in Occurrences(SplitStem(name)) : ~Accepted(o) /\ OverlapsMatched(o)

\* the offsets of s that hold a Chinese character outside the ranges
FreeChinese(s, ranges) ==
  { p \in 0..(Len(s) - 1) :
      /\ s[p + 1] \in Chinese
      /\ \A k \in DOMAIN ranges : p < ranges[k].start \/ p >= ranges[k].end }

\* the maximal runs of such offsets, as half-open intervals
FreeRuns(s, ranges) ==
  LET free == FreeChinese(s, ranges)
  IN  { [start |-> a,
         end   |-> CHOOSE e \in (a + 1)..Len(s) :
                      /\ e \notin free
                      /\ \A p \in a..(e - 1) : p \in free] :
        a \in { p \in free : (p - 1) \notin free } }

RECURSIVE Substituted(_, _, _, _, _)
\* s from offset pos on, read left to right: a range gives its replacement,
\* a run gives its cleaned translation, any other character stays
Substituted(s, tr, ranges, runs, pos) ==
  IF pos >= Len(s) THEN <<>>
  ELSE IF \E k \in DOMAIN ranges : ranges[k].start = pos
       THEN LET m == ranges[CHOOSE k \in DOMAIN ranges : ranges[k].start = pos]
            IN  m.replacement \o Substituted(s, tr, ranges, runs, m.end)
       ELSE IF \E r \in runs : r.start = pos
            THEN LET r == CHOOSE r \in runs : r.start = pos
                 IN  Sanitize(Translate(tr, Slice(s, r.start, r.end)))
                       \o Substituted(s, tr, ranges, runs, r.end)
            ELSE <<s[pos + 1]>> \o Substituted(s, tr, ranges, runs, pos + 1)

\* C14: while one stem is resolved the translator is called once for every
\* maximal run of Chinese characters outside the matched ranges, with that
\* run as its argument, and on nothing else; the text returned is the stem
\* with every matched range replaced by its target, every such run by its
\* cleaned translation, and every other character left where it was.
C14_CallsAndSubstitution ==
  (stage = "done" /\ contains_chinese(name)) =>
     LET stem == SplitStem(name)
         runs == FreeRuns(stem, matched)
         texts == { Slice(stem, r.start, r.end) : r \in runs }
         calls == translated.calls
     IN  /\ Len(calls) = Cardinality(runs)
         /\ \A i \in DOMAIN calls : calls[i] \in texts
         /\ \A x \in texts :
               Cardinality({ i \in DOMAIN calls : calls[i] = x })
                 = Cardinality({ r \in runs : Slice(stem, r.start, r.end) = x })
         /\ translated.out = Substituted(stem, translator, matched, runs, 0)

\* two runs of one stem translated to text longer than the runs
C14_Witness ==
  /\ stage = "done"
  /\ translator = "word"
  /\ Len(translated.calls) >= 2
  /\ translated.calls[1] # translated.calls[2]

\* C11: the clean-up of a name (split into stem and suffix, runs of hyphens
\* in the stem collapsed, hyphens at the ends of the stem stripped, suffix
\* re-attached) is idempotent: applied to its own result it returns that
\* result.
C11_NormalizeIdempotent ==
  stage = "twice" => result = normalize(name)

RECURSIVE EntryPath(_, _)
\* the path of entry e from root_dir down
EntryPath(f, e) ==
  IF f[e].parent = 0 THEN <<f[e].name>>
  ELSE Append(EntryPath(f, f[e].parent), f[e].name)

\* the paths of the entries below root_dir whose base name has a Chinese
\* character and which are neither a directory named .git or .venv nor
\* inside such a directory below root_dir
Candidates(f) ==
  { EntryPath(f, e) : e \in
      { e \in DOMAIN f :
          LET path == EntryPath(f, e)
          IN  /\ contains_chinese(f[e].name)
              /\ ~(f[e].kind = "dir" /\ f[e].name \in SkippedDirs)
              /\ \A k \in 1..(Len(path) - 1) : path[k] \notin SkippedDirs } }

\* C12: for every tree and every root_dir the list translate_directory
\* collects holds, each once, the entries below root_dir whose base name has
\* a Chinese character and which are neither a directory named .git or .venv
\* nor inside such a directory below root_dir, and nothing else.
C12_CandidatesExact ==
  pc # "walk" =>
     /\ { items_to_process[i].path : i \in DOMAIN items_to_process } = Candidates(fs0)
     /\ Len(items_to_process) = Cardinality(Candidates(fs0))

====
